---- MODULE Spec2Model ----
(***************************************************************************)
(* The actor runtime of generator_process/actor.py: a frontend Actor whose *)
(* call proxies start one sender thread per call, a backend Actor running  *)
(* the dispatch loop in a worker process, the two bounded queues between   *)
(* them, the call lock, and the Future each call returns.                  *)
(*                                                                         *)
(* multiprocessing.Queue is modelled as a FIFO sequence of bounded length, *)
(* Lock as the id of the holding sender thread (0 when free).  A method of *)
(* the concrete actor is one of four behaviours: a plain return, a plain   *)
(* raise, a generator counting down from n, and a generator that yields    *)
(* once and then raises.  Methods raise subclasses of Exception only.      *)
(* The fields "call" and "role" of queue items, the fields len and early of *)
(* cpc, and the variables emitted, sentOrder, drained, seenCancel and       *)
(* lateValue are history variables: no modelled code reads them.            *)
(* BackendSpec is the backend process alone, the contents of its message    *)
(* queue being its input.                                                   *)
(***************************************************************************)
EXTENDS Integers, Sequences, FiniteSets, TLC

\* ------------------------------------------------------------------ bounds
MaxCalls == 2        \* proxy calls issued on the one frontend actor
MaxN == 2            \* largest argument of countdown(n)
MaxEnvCancels == 2   \* CANCEL sentinels the environment of BackendSpec sends
MaxProbes == 2       \* threads that call can_use()
MaxActors == 2       \* frontend instances of the one concrete actor type
MaxCloses == 2       \* close() calls that return normally, per instance

\* --------------------------------------------------------------- constants
QueueMaxSize == 1    \* Queue(maxsize=1), both default arguments of __init__

Calls == 1..MaxCalls
Probes == 1..MaxProbes

\* Message.CANCEL and Message.END
CANCEL == "__cancel__"
END == "__end__"

\* ---------------------------------------------------------- python values
\* A value travelling through a queue: its Python type, its payload, and
\* for a TracedError the formatted trace.
PyStr(s, c, r) == [kind |-> "str", val |-> s, trace |-> "", call |-> c, role |-> r]
\* The results that are instances of Exception.
ExceptionValues == {"ValueError"}

\* A result of a method as it is put on the response queue.
PyValue(v, c) ==
    [kind |-> IF v \in ExceptionValues THEN "Exception" ELSE "str",
     val |-> v, trace |-> "", call |-> c, role |-> "value"]
PyNone == [kind |-> "NoneType", val |-> "None", trace |-> "", call |-> 0, role |-> "none"]

\* Message(name, args, kwargs): val is the method name, n its one argument.
Message(name, n, c) ==
    [kind |-> "Message", val |-> name, trace |-> "", call |-> c, role |-> "message", n |-> n]

\* TracedError(base, trace)
TracedError(base, trace, c) ==
    [kind |-> "TracedError", val |-> base, trace |-> trace, call |-> c, role |-> "error"]

\* An exception object held by a Future: the base exception and its __cause__.
NoException == [base |-> "None", cause |-> "None", call |-> 0]

\* ------------------------------------------------------ the actor's methods
NumStr == <<"1", "2", "3", "4">>

MethodNames == {"add", "boom", "countdown", "failing_steps", "echo_end", "status_steps"}

Invocations ==
    {[name |-> "add", n |-> 0], [name |-> "boom", n |-> 0], [name |-> "failing_steps", n |-> 0]}
    \cup {[name |-> "countdown", n |-> k] : k \in 0..MaxN}

\* Calls of methods whose results are a str equal to a sentinel, or an
\* exception object: echo_end returns "__end__", status_steps yields a
\* ValueError object and then "1".
ValueInvocations == {[name |-> "echo_end", n |-> 0], [name |-> "status_steps", n |-> 0]}

NoInvocation == [name |-> "none", n |-> 0]

\* isinstance(response, Generator) for what the named method returns
IsGenerator(name) == name \in {"countdown", "failing_steps", "status_steps"}

\* The values a generator-valued method yields, in order.
Yields(name, n) ==
    IF name = "countdown" THEN [i \in 1..n |-> NumStr[n + 1 - i]]
    ELSE IF name = "failing_steps" THEN <<"1">>
    ELSE IF name = "status_steps" THEN <<"ValueError", "1">>
    ELSE <<>>

\* Whether the method raises: at the call for a plain method, after its last
\* yield for a generator.
Raises(name) == name \in {"boom", "failing_steps"}

\* The value a plain method returns.
Returns(name) == IF name = "add" THEN "5" ELSE IF name = "echo_end" THEN END ELSE "None"

\* The values a call of the method puts on the response queue when it runs
\* to its end.
Produced(inv) ==
    IF IsGenerator(inv.name) THEN Yields(inv.name, inv.n)
    ELSE IF Raises(inv.name) THEN <<>>
    ELSE <<Returns(inv.name)>>

\* str(e) of the exception a method raises, and traceback.format_exc() of it.
ErrorOf(name) == IF name \in MethodNames THEN "domain error" ELSE "AttributeError"
TraceOf(name) == IF name \in MethodNames THEN "Traceback: domain error" ELSE "Traceback: AttributeError"

\* ------------------------------------------------------------------- state
VARIABLES
    invoked,        \* per call: the method and argument the proxy was called with
    spc,            \* per call: where its sender thread is
    responses,      \* Future._responses
    exception,      \* Future._exception
    done,           \* Future.done
    cancelled,      \* Future.cancelled, the attribute the sender thread reads
    u_cancelled,    \* Future._cancelled, the attribute cancel() writes
    cpc,            \* per call: the caller's cancel(): not called, returned or raised; with
                    \* history of the moment it was called: len, the responses the Future
                    \* held, and early, whether the backend had values of the call left to put
    lock,           \* Actor._lock: 0, or the call whose sender thread holds it
    message_queue,  \* Actor._message_queue
    response_queue, \* Actor._response_queue
    backend,        \* the backend process: pc, the message in hand, iteration index
    emitted,        \* history: per call, "begin" when the backend took its Message, then
                    \* the role of each item the backend put for it
    sentOrder,      \* history: the calls in the order their Message was enqueued
    drained,        \* history: calls whose sender thread consumed the call's own END
    seenCancel,     \* history: the backend's check removed a CANCEL in this dispatch
    lateValue,      \* history: a value was put after the check removed a CANCEL
    envCancels,     \* BackendSpec only: CANCEL sentinels its environment has sent
    wpc,            \* WaitSpec only: the thread in result() or exception() of each call
    ppc,            \* ProbeSpec only: the position of each thread in can_use()
    actors,         \* RegistrySpec only: the frontend instances constructed so far
    shared_instance, \* RegistrySpec only: Actor._shared_instance, 0 for None
    closedQueues,   \* RegistrySpec only: the queue pairs that close() has closed
    op,             \* RegistrySpec only: the last operation and how it ended
    lastShared,     \* history: what shared() returned last since a shared_close()
    ecb             \* CallbackSpec only: the exception callback of each Future

regVars == <<actors, shared_instance, closedQueues, op, lastShared>>
auxVars == <<ppc, regVars, ecb>>

vars == <<invoked, spc, responses, exception, done, cancelled, u_cancelled, cpc,
          lock, message_queue, response_queue, backend, emitted,
          sentOrder, drained, seenCancel, lateValue, envCancels, wpc, auxVars>>

futureVars == <<responses, exception, done, cancelled, u_cancelled>>
backendVars == <<backend, emitted, seenCancel, lateValue>>

NotCancelled == [pc |-> "idle", len |-> 0, early |-> FALSE]

NoOp == [name |-> "none", actor |-> 0, result |-> "ok"]

NoCallback == [registered |-> FALSE, before |-> FALSE, runs |-> 0]

NoAccessor == [pc |-> "none", fn |-> "none"]

BackendIdle == [pc |-> "idle", call |-> 0, name |-> "none", n |-> 0, idx |-> 0]

\* Future.__init__ for every call, Actor.__init__ and start() of the frontend.
Init ==
    /\ invoked = [c \in Calls |-> NoInvocation]
    /\ spc = [c \in Calls |-> "unborn"]
    /\ responses = [c \in Calls |-> <<>>]
    /\ exception = [c \in Calls |-> NoException]
    /\ done = [c \in Calls |-> FALSE]
    /\ cancelled = [c \in Calls |-> FALSE]
    /\ u_cancelled = [c \in Calls |-> FALSE]
    /\ cpc = [c \in Calls |-> NotCancelled]
    /\ lock = 0
    /\ message_queue = <<>>
    /\ response_queue = <<>>
    /\ backend = BackendIdle
    /\ emitted = [c \in Calls |-> <<>>]
    /\ sentOrder = <<>>
    /\ drained = {}
    /\ seenCancel = FALSE
    /\ lateValue = FALSE
    /\ envCancels = 0
    /\ wpc = [c \in Calls |-> NoAccessor]
    /\ ppc = [p \in Probes |-> "idle"]
    /\ actors = <<>>
    /\ shared_instance = 0
    /\ closedQueues = {}
    /\ op = NoOp
    /\ lastShared = 0
    /\ ecb = [c \in Calls |-> NoCallback]

\* history: how many values the backend has put for call c so far
ValuesPut(c) == Cardinality({i \in 1..Len(emitted[c]) : emitted[c][i] = "value"})

\* ------------------------------------------------------------ the frontend
\* The proxy _send(name)(*args): a fresh Future, a started sender thread.
Call(c, inv) ==
    /\ spc[c] = "unborn"
    /\ \A b \in Calls : b < c => spc[b] # "unborn"
    /\ invoked' = [invoked EXCEPT ![c] = inv]
    /\ spc' = [spc EXCEPT ![c] = "acquire"]
    /\ UNCHANGED <<futureVars, cpc, lock, message_queue, response_queue,
                   backendVars, sentOrder, drained, envCancels, wpc, auxVars>>

\* _send_thread: self._lock.acquire().  The threads waiting for the lock are
\* interchangeable, and a proxy call does nothing but start its thread, so
\* the calls are numbered in the order in which their threads get the lock.
SenderAcquire(c) ==
    /\ spc[c] = "acquire"
    /\ lock = 0
    /\ \A b \in Calls : b < c => spc[b] # "acquire"
    /\ lock' = c
    /\ spc' = [spc EXCEPT ![c] = "put"]
    /\ UNCHANGED <<invoked, futureVars, cpc, message_queue, response_queue,
                   backendVars, sentOrder, drained, envCancels, wpc, auxVars>>

\* _send_thread: self._message_queue.put(Message(name, args, kwargs))
SenderPut(c) ==
    /\ spc[c] = "put"
    /\ Len(message_queue) < QueueMaxSize
    /\ message_queue' = Append(message_queue, Message(invoked[c].name, invoked[c].n, c))
    /\ sentOrder' = Append(sentOrder, c)
    /\ spc' = [spc EXCEPT ![c] = "loop"]
    /\ UNCHANGED <<invoked, futureVars, cpc, lock, response_queue,
                   backendVars, drained, envCancels, wpc, auxVars>>

\* the loop with `while True` for `while not future.done`
SenderLoop_Forever(c) ==
    /\ spc[c] = "loop"
    /\ spc' = [spc EXCEPT ![c] = "get"]
    /\ UNCHANGED <<invoked, futureVars, cpc, lock, message_queue, response_queue,
                   backendVars, sentOrder, drained, envCancels, wpc, auxVars>>

\* _send_thread: while not future.done: if future.cancelled: put(CANCEL)
SenderLoop(c) ==
    /\ spc[c] = "loop"
    /\ IF done[c]
       THEN /\ spc' = [spc EXCEPT ![c] = "release"]
            /\ UNCHANGED message_queue
       ELSE IF cancelled[c]
       THEN /\ Len(message_queue) < QueueMaxSize
            /\ message_queue' = Append(message_queue, PyStr(CANCEL, c, "cancel"))
            /\ spc' = [spc EXCEPT ![c] = "get"]
       ELSE /\ spc' = [spc EXCEPT ![c] = "get"]
            /\ UNCHANGED message_queue
    /\ UNCHANGED <<invoked, futureVars, cpc, lock, response_queue,
                   backendVars, sentOrder, drained, envCancels, wpc, auxVars>>

\* Future.add_response
add_response(c, response) == responses' = [responses EXCEPT ![c] = Append(@, response)]

\* Future.set_exception
set_exception(c, e) == exception' = [exception EXCEPT ![c] = e]

\* _send_thread: response = self._response_queue.get() and the branch on it.
\* On END, set_done() first asserts not self.done: a failed assertion ends the
\* thread where it stands, the lock still held.
SenderGet(c) ==
    /\ spc[c] = "get"
    /\ response_queue # <<>>
    /\ LET response == Head(response_queue) IN
       /\ response_queue' = Tail(response_queue)
       /\ IF response.kind = "str" /\ response.val = END
          THEN /\ spc' = [spc EXCEPT ![c] = IF done[c] THEN "dead" ELSE "set_done"]
               /\ drained' = IF response.call = c /\ response.role = "end"
                             THEN drained \cup {c} ELSE drained
               /\ UNCHANGED <<responses, exception>>
          ELSE IF response.kind = "TracedError"
          THEN /\ set_exception(c, [base |-> response.val, cause |-> response.trace,
                                    call |-> response.call])
               /\ spc' = [spc EXCEPT ![c] = "loop"]
               /\ UNCHANGED <<responses, drained>>
          ELSE IF response.kind = "Exception"
          THEN /\ set_exception(c, [base |-> response.val, cause |-> "None",
                                    call |-> response.call])
               /\ spc' = [spc EXCEPT ![c] = "loop"]
               /\ UNCHANGED <<responses, drained>>
          ELSE /\ add_response(c, response)
               /\ spc' = [spc EXCEPT ![c] = "loop"]
               /\ UNCHANGED <<exception, drained>>
    /\ UNCHANGED <<invoked, done, cancelled, u_cancelled, cpc, lock,
                   message_queue, backendVars, sentOrder, envCancels, wpc, auxVars>>

\* Future.set_done after its assertion passed: self.done = True, then every
\* registered done callback runs; the callback of a waiting accessor sets its
\* event.
set_done(c) ==
    /\ done' = [done EXCEPT ![c] = TRUE]
    /\ wpc' = [wpc EXCEPT ![c] = IF @.pc = "waiting" THEN [@ EXCEPT !.pc = "returned"] ELSE @]

\* _send_thread: future.set_done(), the assignment
SenderSetDone(c) ==
    /\ spc[c] = "set_done"
    /\ set_done(c)
    /\ spc' = [spc EXCEPT ![c] = "loop"]
    /\ UNCHANGED <<invoked, responses, exception, cancelled, u_cancelled, cpc,
                   lock, message_queue, response_queue, backendVars, sentOrder, drained, envCancels, auxVars>>

\* _send_thread: self._lock.release()
SenderRelease(c) ==
    /\ spc[c] = "release"
    /\ lock' = 0
    /\ spc' = [spc EXCEPT ![c] = "exit"]
    /\ UNCHANGED <<invoked, futureVars, cpc, message_queue, response_queue,
                   backendVars, sentOrder, drained, envCancels, wpc, auxVars>>

\* cancel() with set_done's assertion left out
Cancel_NoAssert(c) ==
    /\ spc[c] # "unborn"
    /\ cpc[c].pc = "idle"
    /\ u_cancelled' = [u_cancelled EXCEPT ![c] = TRUE]
    /\ cpc' = [cpc EXCEPT ![c] = [pc |-> "returned", len |-> Len(responses[c]),
                                  early |-> ValuesPut(c) < Len(Produced(invoked[c]))]]
    /\ set_done(c)
    /\ UNCHANGED <<invoked, spc, responses, exception, cancelled, lock,
                   message_queue, response_queue, backendVars, sentOrder, drained, envCancels, auxVars>>

\* Future.cancel: self._cancelled = True; self.set_done().  set_done asserts
\* not self.done, so cancel() of a Future that is done raises AssertionError
\* in the caller.  The assertion and the assignment are one step here: the
\* sender thread's set_done is two, which is enough for the two threads to
\* both pass the assertion.
Cancel(c) ==
    /\ spc[c] # "unborn"
    /\ cpc[c].pc = "idle"
    /\ u_cancelled' = [u_cancelled EXCEPT ![c] = TRUE]
    /\ cpc' = [cpc EXCEPT ![c] = [pc |-> IF done[c] THEN "raised" ELSE "returned",
                                  len |-> Len(responses[c]),
                                  early |-> ValuesPut(c) < Len(Produced(invoked[c]))]]
    /\ IF done[c] THEN UNCHANGED <<done, wpc>> ELSE set_done(c)
    /\ UNCHANGED <<invoked, spc, responses, exception, cancelled, lock,
                   message_queue, response_queue, backendVars, sentOrder, drained, envCancels, auxVars>>

\* What a result() call does: returns None, one value or the list, or raises.
Returned(shape, items) == [kind |-> "return", shape |-> shape, items |-> items]
Raised(e) == [kind |-> "raise", shape |-> "exception", items |-> <<e.base, e.cause>>]

\* Future.result._response
Response(rs) ==
    IF Len(rs) = 0 THEN Returned("None", <<>>)
    ELSE IF Len(rs) = 1 THEN Returned("value", <<rs[1].val>>)
    ELSE Returned("list", [i \in 1..Len(rs) |-> rs[i].val])

\* Future.result on a Future that has an exception or is done: what it raises
\* or returns.
result(c) ==
    IF exception[c] # NoException THEN Raised(exception[c]) ELSE Response(responses[c])

frontendVars == <<spc, futureVars, cpc, lock, drained>>

\* ------------------------------------------------------------- the backend
Emit(c, role) == IF c \in Calls THEN [emitted EXCEPT ![c] = Append(@, role)] ELSE emitted

\* _backend_loop: self._receive(self._message_queue.get()), up to the call of
\* the named method.  A queue item that is no Message has no method_name:
\* getattr raises AttributeError inside the try.
BackendGet ==
    /\ backend.pc = "idle"
    /\ message_queue # <<>>
    /\ LET message == Head(message_queue)
           name == IF message.kind = "Message" THEN message.val ELSE "none"
       IN
       /\ message_queue' = Tail(message_queue)
       /\ backend' = [pc |-> IF name \notin MethodNames THEN "put_error"
                             ELSE IF IsGenerator(name) THEN "iter"
                             ELSE IF Raises(name) THEN "put_error"
                             ELSE "put_value",
                      call |-> IF message.kind = "Message" THEN message.call ELSE 0,
                      name |-> name,
                      n |-> IF message.kind = "Message" THEN message.n ELSE 0,
                      idx |-> 0]
    /\ emitted' = IF Head(message_queue).kind = "Message"
                  THEN Emit(Head(message_queue).call, "begin") ELSE emitted
    /\ seenCancel' = FALSE
    /\ UNCHANGED <<invoked, frontendVars, response_queue, sentOrder, lateValue, envCancels, wpc, auxVars>>

\* _receive: extra_message = None; the value of get(block=False) is dropped.
extra_message(q) == PyNone

\* _receive: one turn of `for res in iter(response)` up to the put: the next
\* value is produced (or the generator ends or raises), the message queue is
\* polled without blocking, and extra_message is compared with CANCEL.
BackendIter ==
    /\ backend.pc = "iter"
    /\ IF backend.idx < Len(Yields(backend.name, backend.n))
       THEN /\ message_queue' = IF message_queue = <<>> THEN <<>> ELSE Tail(message_queue)
            /\ seenCancel' = (seenCancel \/ (message_queue # <<>> /\ Head(message_queue).kind = "str"
                                             /\ Head(message_queue).val = CANCEL))
            /\ LET extra == extra_message(message_queue) IN
               backend' = [backend EXCEPT !.pc = IF extra.kind = "str" /\ extra.val = CANCEL
                                                 THEN "put_end" ELSE "put_res"]
       ELSE /\ backend' = [backend EXCEPT !.pc = IF Raises(backend.name)
                                                 THEN "put_error" ELSE "put_end"]
            /\ UNCHANGED <<message_queue, seenCancel>>
    /\ UNCHANGED <<invoked, frontendVars, response_queue, emitted, sentOrder, lateValue,
                   envCancels, wpc, auxVars>>

\* _receive: self._response_queue.put(res)
BackendPutRes ==
    /\ backend.pc = "put_res"
    /\ Len(response_queue) < QueueMaxSize
    /\ response_queue' = Append(response_queue,
            PyValue(Yields(backend.name, backend.n)[backend.idx + 1], backend.call))
    /\ backend' = [backend EXCEPT !.pc = "iter", !.idx = @ + 1]
    /\ emitted' = Emit(backend.call, "value")
    /\ lateValue' = (lateValue \/ seenCancel)
    /\ UNCHANGED <<invoked, frontendVars, message_queue, sentOrder, seenCancel, envCancels, wpc, auxVars>>

\* _receive: self._response_queue.put(response)
BackendPutValue ==
    /\ backend.pc = "put_value"
    /\ Len(response_queue) < QueueMaxSize
    /\ response_queue' = Append(response_queue,
            PyValue(Returns(backend.name), backend.call))
    /\ backend' = [backend EXCEPT !.pc = "put_end"]
    /\ emitted' = Emit(backend.call, "value")
    /\ UNCHANGED <<invoked, frontendVars, message_queue, sentOrder, seenCancel, lateValue,
                   envCancels, wpc, auxVars>>

\* _receive with the END put inside the try: none after an exception
BackendPutError_NoEnd ==
    /\ backend.pc = "put_error"
    /\ Len(response_queue) < QueueMaxSize
    /\ response_queue' = Append(response_queue,
            TracedError(ErrorOf(backend.name), TraceOf(backend.name), backend.call))
    /\ backend' = BackendIdle
    /\ emitted' = Emit(backend.call, "error")
    /\ UNCHANGED <<invoked, frontendVars, message_queue, sentOrder, seenCancel, lateValue,
                   envCancels, wpc, auxVars>>

\* _receive: except Exception as e: put(TracedError(e, traceback.format_exc()))
BackendPutError ==
    /\ backend.pc = "put_error"
    /\ Len(response_queue) < QueueMaxSize
    /\ response_queue' = Append(response_queue,
            TracedError(ErrorOf(backend.name), TraceOf(backend.name), backend.call))
    /\ backend' = [backend EXCEPT !.pc = "put_end"]
    /\ emitted' = Emit(backend.call, "error")
    /\ UNCHANGED <<invoked, frontendVars, message_queue, sentOrder, seenCancel, lateValue,
                   envCancels, wpc, auxVars>>

\* _receive: self._response_queue.put(Message.END), and back to the loop's get
BackendPutEnd ==
    /\ backend.pc = "put_end"
    /\ Len(response_queue) < QueueMaxSize
    /\ response_queue' = Append(response_queue, PyStr(END, backend.call, "end"))
    /\ backend' = BackendIdle
    /\ emitted' = Emit(backend.call, "end")
    /\ UNCHANGED <<invoked, frontendVars, message_queue, sentOrder, seenCancel, lateValue,
                   envCancels, wpc, auxVars>>

\* ------------------------------------------------------- the whole program
Next ==
    \/ \E c \in Calls, inv \in Invocations : Call(c, inv)
    \/ \E c \in Calls : SenderAcquire(c)
    \/ \E c \in Calls : SenderPut(c)
    \/ \E c \in Calls : SenderLoop(c)
    \/ \E c \in Calls : SenderGet(c)
    \/ \E c \in Calls : SenderSetDone(c)
    \/ \E c \in Calls : SenderRelease(c)
    \/ \E c \in Calls : Cancel(c)
    \/ BackendGet
    \/ BackendIter
    \/ BackendPutRes
    \/ BackendPutValue
    \/ BackendPutError
    \/ BackendPutEnd

Spec == Init /\ [][Next]_vars

\* ------------------------------------------- the backend process on its own
\* The backend with any frontend: its environment puts Messages and CANCEL
\* sentinels on the message queue and takes whatever is on the response queue.
EnvPutMessage(inv) ==
    /\ Len(sentOrder) < MaxCalls
    /\ Len(message_queue) < QueueMaxSize
    /\ LET c == Len(sentOrder) + 1 IN
       /\ message_queue' = Append(message_queue, Message(inv.name, inv.n, c))
       /\ invoked' = [invoked EXCEPT ![c] = inv]
       /\ sentOrder' = Append(sentOrder, c)
    /\ UNCHANGED <<frontendVars, response_queue, backendVars, envCancels, wpc, auxVars>>

EnvPutCancel ==
    /\ sentOrder # <<>>
    /\ envCancels < MaxEnvCancels
    /\ Len(message_queue) < QueueMaxSize
    /\ message_queue' = Append(message_queue, PyStr(CANCEL, sentOrder[Len(sentOrder)], "cancel"))
    /\ envCancels' = envCancels + 1
    /\ UNCHANGED <<invoked, frontendVars, response_queue, backendVars, sentOrder, wpc, auxVars>>

EnvGet ==
    /\ response_queue # <<>>
    /\ response_queue' = Tail(response_queue)
    /\ UNCHANGED <<invoked, frontendVars, message_queue, backendVars, sentOrder, envCancels, wpc, auxVars>>

BackendNext ==
    \/ \E inv \in Invocations : EnvPutMessage(inv)
    \/ EnvPutCancel
    \/ EnvGet
    \/ BackendGet
    \/ BackendIter
    \/ BackendPutRes
    \/ BackendPutValue
    \/ BackendPutError
    \/ BackendPutEnd

BackendSpec == Init /\ [][BackendNext]_vars

\* ------------------------------------------- threads in result()/exception()
\* Future.result / Future.exception up to the branch on self.done: result()
\* raises at once when the exception is set, both return at once when the
\* Future is done; otherwise the thread goes on to create its event.
AccessorCheck(c, fn) ==
    /\ spc[c] # "unborn"
    /\ wpc[c].pc = "none"
    /\ wpc' = [wpc EXCEPT ![c] =
                 [pc |-> IF (fn = "result" /\ exception[c] # NoException) \/ done[c]
                         THEN "returned" ELSE "checked",
                  fn |-> fn]]
    /\ UNCHANGED <<invoked, frontendVars, message_queue, response_queue,
                   backendVars, sentOrder, envCancels, auxVars>>

\* Future.result / Future.exception: event = threading.Event();
\* self.add_done_callback(_done); event.wait()
AccessorWait(c) ==
    /\ wpc[c].pc = "checked"
    /\ wpc' = [wpc EXCEPT ![c].pc = "waiting"]
    /\ UNCHANGED <<invoked, frontendVars, message_queue, response_queue,
                   backendVars, sentOrder, envCancels, auxVars>>

\* The whole program with one thread per Future calling result() or
\* exception().
WaitNext ==
    \/ \E c \in Calls, inv \in Invocations : Call(c, inv)
    \/ \E c \in Calls : SenderAcquire(c)
    \/ \E c \in Calls : SenderPut(c)
    \/ \E c \in Calls : SenderLoop(c)
    \/ \E c \in Calls : SenderGet(c)
    \/ \E c \in Calls : SenderSetDone(c)
    \/ \E c \in Calls : SenderRelease(c)
    \/ \E c \in Calls : Cancel(c)
    \/ \E c \in Calls, fn \in {"result", "exception"} : AccessorCheck(c, fn)
    \/ \E c \in Calls : AccessorWait(c)
    \/ BackendGet
    \/ BackendIter
    \/ BackendPutRes
    \/ BackendPutValue
    \/ BackendPutError
    \/ BackendPutEnd

WaitSpec == Init /\ [][WaitNext]_vars

\* ---------------------------------------------------- threads in can_use()
\* Actor.can_use: result := self._lock.acquire(block=False).  A thread p that
\* gets the lock holds it as -p; one that does not returns False.
ProbeAcquire(p) ==
    /\ ppc[p] = "idle"
    /\ IF lock = 0
       THEN lock' = -p /\ ppc' = [ppc EXCEPT ![p] = "holding"]
       ELSE UNCHANGED lock /\ ppc' = [ppc EXCEPT ![p] = "false"]
    /\ UNCHANGED <<invoked, spc, futureVars, cpc, drained, message_queue, response_queue,
                   backendVars, sentOrder, envCancels, wpc, regVars, ecb>>

\* Actor.can_use: self._lock.release(); return result
ProbeRelease(p) ==
    /\ ppc[p] = "holding"
    /\ lock' = 0
    /\ ppc' = [ppc EXCEPT ![p] = "true"]
    /\ UNCHANGED <<invoked, spc, futureVars, cpc, drained, message_queue, response_queue,
                   backendVars, sentOrder, envCancels, wpc, regVars, ecb>>

\* The whole program with threads that call can_use() on the frontend actor.
ProbeNext ==
    \/ \E c \in Calls, inv \in Invocations : Call(c, inv)
    \/ \E c \in Calls : SenderAcquire(c)
    \/ \E c \in Calls : SenderPut(c)
    \/ \E c \in Calls : SenderLoop(c)
    \/ \E c \in Calls : SenderGet(c)
    \/ \E c \in Calls : SenderSetDone(c)
    \/ \E c \in Calls : SenderRelease(c)
    \/ \E c \in Calls : Cancel(c)
    \/ \E p \in Probes : ProbeAcquire(p)
    \/ \E p \in Probes : ProbeRelease(p)
    \/ BackendGet
    \/ BackendIter
    \/ BackendPutRes
    \/ BackendPutValue
    \/ BackendPutError
    \/ BackendPutEnd

ProbeSpec == Init /\ [][ProbeNext]_vars

\* ------------------------------------------- instances and the registry
\* Everything outside the instances and the registry.
callVars == <<invoked, spc, futureVars, cpc, lock, message_queue, response_queue,
              backendVars, sentOrder, drained, envCancels, wpc, ppc, ecb>>

\* Actor._protected_methods
protected_methods == {"start", "close", "is_alive", "can_use", "shared"}

\* The names in dir(self) of an instance of the concrete actor type that are
\* callable and do not start with "_".
PublicCallables ==
    {"start", "close", "shared_close", "is_alive", "can_use", "shared"} \cup MethodNames

\* Actor._setup, FRONTEND: the names it replaces with self._send(name).
Setup == {name \in PublicCallables : name \notin protected_methods}

\* The two Queue(maxsize=1) objects that are the default arguments of
\* __init__, created once when the class body is executed.
DefaultQueues == 0

\* Actor.__init__ of instance number k in the FRONTEND context, without
\* queue arguments or with a fresh pair of queues.
NewActor(explicit, k) ==
    [queues |-> IF explicit THEN k ELSE DefaultQueues,
     started |-> FALSE, terminated |-> FALSE, closes |-> 0, proxied |-> Setup]

Ended(name, i, how) == [name |-> name, actor |-> i, result |-> how]

\* cls(ActorContext.FRONTEND, ...): __init__, whose last statement is
\* self.__class__._shared_instance = self
Construct(explicit) ==
    /\ Len(actors) < MaxActors
    /\ actors' = Append(actors, NewActor(explicit, Len(actors) + 1))
    /\ shared_instance' = Len(actors) + 1
    /\ op' = Ended("construct", Len(actors) + 1, "ok")
    /\ UNCHANGED <<closedQueues, lastShared, callVars>>

\* Actor.start, FRONTEND: self.process = Process(...); self.process.start()
Start(i) ==
    /\ i \in 1..Len(actors)
    /\ ~actors[i].started
    /\ actors' = [actors EXCEPT ![i].started = TRUE]
    /\ op' = Ended("start", i, "ok")
    /\ UNCHANGED <<shared_instance, closedQueues, lastShared, callVars>>

\* Actor.close, FRONTEND, of an instance that has a process:
\* self.process.terminate(); self._message_queue.close();
\* self._response_queue.close()
close(i) ==
    /\ actors' = [actors EXCEPT ![i].terminated = TRUE, ![i].closes = @ + 1]
    /\ closedQueues' = closedQueues \cup {actors[i].queues}

\* close() with queues whose close() raises on a queue that is closed
Close_Strict(i) ==
    /\ i \in 1..Len(actors)
    /\ actors[i].closes < MaxCloses
    /\ IF actors[i].started /\ actors[i].queues \notin closedQueues
       THEN close(i) /\ op' = Ended("close", i, "ok")
       ELSE /\ op' = Ended("close", i, IF actors[i].started THEN "ValueError"
                                                           ELSE "AttributeError")
            /\ UNCHANGED <<actors, closedQueues>>
    /\ UNCHANGED <<shared_instance, lastShared, callVars>>

\* Actor.close.  An instance that was never started has no attribute
\* process: AttributeError.
Close(i) ==
    /\ i \in 1..Len(actors)
    /\ actors[i].closes < MaxCloses
    /\ IF actors[i].started
       THEN close(i) /\ op' = Ended("close", i, "ok")
       ELSE /\ op' = Ended("close", i, "AttributeError")
            /\ UNCHANGED <<actors, closedQueues>>
    /\ UNCHANGED <<shared_instance, lastShared, callVars>>

\* Actor.shared_close called on the class
SharedClose ==
    /\ shared_instance # 0 => actors[shared_instance].closes < MaxCloses
    /\ IF shared_instance = 0
       THEN /\ op' = Ended("shared_close", 0, "ok")
            /\ UNCHANGED <<actors, closedQueues, shared_instance>>
       ELSE IF actors[shared_instance].started
       THEN /\ close(shared_instance)
            /\ shared_instance' = 0
            /\ op' = Ended("shared_close", shared_instance, "ok")
       ELSE /\ op' = Ended("shared_close", shared_instance, "AttributeError")
            /\ UNCHANGED <<actors, closedQueues, shared_instance>>
    /\ lastShared' = 0
    /\ UNCHANGED callVars

\* Actor.shared: cls._shared_instance or cls(ActorContext.FRONTEND).start()
Shared ==
    /\ IF shared_instance # 0
       THEN /\ op' = Ended("shared", shared_instance, "ok")
            /\ lastShared' = shared_instance
            /\ UNCHANGED <<actors, shared_instance>>
       ELSE /\ Len(actors) < MaxActors
            /\ actors' = Append(actors,
                   [NewActor(FALSE, Len(actors) + 1) EXCEPT !.started = TRUE])
            /\ shared_instance' = Len(actors) + 1
            /\ op' = Ended("shared", Len(actors) + 1, "ok")
            /\ lastShared' = Len(actors) + 1
    /\ UNCHANGED <<closedQueues, callVars>>

\* instance.name(...) for a name that _setup replaced: the function that
\* _send returned runs and a Message(name, ...) goes to the backend.
InvokeProxy(i, name) ==
    /\ i \in 1..Len(actors)
    /\ name \in actors[i].proxied
    /\ op' = Ended(name, i, "Message")
    /\ UNCHANGED <<actors, shared_instance, closedQueues, lastShared, callVars>>

\* The frontend instances of one concrete actor type and its registry.
RegistryNext ==
    \/ \E explicit \in BOOLEAN : Construct(explicit)
    \/ \E i \in 1..MaxActors : Start(i)
    \/ \E i \in 1..MaxActors : Close(i)
    \/ SharedClose
    \/ Shared
    \/ \E i \in 1..MaxActors, name \in PublicCallables : InvokeProxy(i, name)

RegistrySpec == Init /\ [][RegistryNext]_vars

\* --------------------------------------------------- exception callbacks
\* Future.add_exception_callback: self._exception_callbacks.add(callback).
\* runs counts the calls of the callback; no statement of Future or of the
\* sender thread calls a member of _exception_callbacks, set_exception
\* included, so no action changes it.
AddExceptionCallback(c) ==
    /\ spc[c] # "unborn"
    /\ ~ecb[c].registered
    /\ ecb' = [ecb EXCEPT ![c] = [registered |-> TRUE,
                                  before |-> exception[c] = NoException,
                                  runs |-> 0]]
    /\ UNCHANGED <<invoked, frontendVars, message_queue, response_queue,
                   backendVars, sentOrder, envCancels, wpc, ppc, regVars>>

\* The whole program with callers that register an exception callback.
CallbackNext ==
    \/ \E c \in Calls, inv \in Invocations : Call(c, inv)
    \/ \E c \in Calls : SenderAcquire(c)
    \/ \E c \in Calls : SenderPut(c)
    \/ \E c \in Calls : SenderLoop(c)
    \/ \E c \in Calls : SenderGet(c)
    \/ \E c \in Calls : SenderSetDone(c)
    \/ \E c \in Calls : SenderRelease(c)
    \/ \E c \in Calls : Cancel(c)
    \/ \E c \in Calls : AddExceptionCallback(c)
    \/ BackendGet
    \/ BackendIter
    \/ BackendPutRes
    \/ BackendPutValue
    \/ BackendPutError
    \/ BackendPutEnd

CallbackSpec == Init /\ [][CallbackNext]_vars

\* ------------------------------- the program with sentinel-like results
\* The whole program, the proxy calls drawn also from ValueInvocations.
ValueNext ==
    \/ \E c \in Calls, inv \in Invocations \cup ValueInvocations : Call(c, inv)
    \/ \E c \in Calls : SenderAcquire(c)
    \/ \E c \in Calls : SenderPut(c)
    \/ \E c \in Calls : SenderLoop(c)
    \/ \E c \in Calls : SenderGet(c)
    \/ \E c \in Calls : SenderSetDone(c)
    \/ \E c \in Calls : SenderRelease(c)
    \/ \E c \in Calls : Cancel(c)
    \/ BackendGet
    \/ BackendIter
    \/ BackendPutRes
    \/ BackendPutValue
    \/ BackendPutError
    \/ BackendPutEnd

ValueSpec == Init /\ [][ValueNext]_vars

\* ------------------------------------------------------------- the claims
\* The backend has put the END of call c.
Finished(c) == emitted[c] # <<>> /\ emitted[c][Len(emitted[c])] = "end"

\* Call c is in flight: its Message is sent and its sender thread has not
\* received an END.
InFlight(c) == spc[c] \in {"loop", "get"} /\ ~done[c]

\* What result() of a call of inv is to give when the call completes without
\* an exception: None for no value, the value for one, the list for more.
ExpectedResult(inv) ==
    LET p == Produced(inv) IN
    IF Len(p) = 0 THEN Returned("None", <<>>)
    ELSE IF Len(p) = 1 THEN Returned("value", <<p[1]>>)
    ELSE Returned("list", p)

\* C1: the Message of a call is put on the message queue only after the
\* sender thread of every exchange started before it has consumed that
\* exchange's END.
C1_NoOverlap ==
    \A i \in 1..Len(sentOrder) : \A j \in 1..(i - 1) : sentOrder[j] \in drained

\* C2: a Future's responses grow only by the head of the response queue, in
\* queue order, and never once the Future is done.
C2_EndIsLast ==
    [][\A c \in Calls :
          responses'[c] # responses[c] =>
              /\ ~done[c]
              /\ response_queue # <<>>
              /\ responses'[c] = Append(responses[c], Head(response_queue))]_vars

\* C3: a call that completed without exception and was never cancelled, and
\* whose method produced k values, has result() None for k = 0, the value for
\* k = 1 and the list of the k values for k > 1.
C3_ResultShape ==
    \A c \in Calls :
        (done[c] /\ cpc[c].pc = "idle" /\ exception[c] = NoException /\ Finished(c))
            => result(c) = ExpectedResult(invoked[c])

\* C4: when the method of call M raises, the call M+1 sent next, if its own
\* method does not raise, completes with its own result and no exception.
C4_NextCallServed ==
    \A i \in 1..(Len(sentOrder) - 1) :
        LET m == sentOrder[i]
            m1 == sentOrder[i + 1]
        IN (/\ Raises(invoked[m].name)
            /\ ~Raises(invoked[m1].name)
            /\ done[m1] /\ cpc[m1].pc = "idle" /\ Finished(m1))
           => /\ exception[m1] = NoException
              /\ result(m1) = ExpectedResult(invoked[m1])

\* The roles of what the backend put for one Message, a prefix of:
\* values, then at most one error, then one END.
ResponseStream(e) ==
    e # <<>> =>
        /\ e[1] = "begin"
        /\ \A i \in 2..Len(e) :
              /\ e[i] \in {"value", "error", "end"}
              /\ e[i] \in {"value", "error"} => \A j \in 2..(i - 1) : e[j] = "value"
              /\ e[i] = "end" => i = Len(e)

MethodRaised(c) ==
    \/ backend.call = c /\ backend.pc = "put_error"
    \/ \E i \in 1..Len(emitted[c]) : emitted[c][i] = "error"

\* C6: when the method of a call has raised, the completed Future (never
\* cancelled) holds the backend's exception with the backend's trace as its
\* cause, and result() raises it.
C6_ExceptionDelivered ==
    \A c \in Calls :
        (MethodRaised(c) /\ done[c] /\ cpc[c].pc = "idle")
            => /\ exception[c] = [base |-> ErrorOf(invoked[c].name),
                                  cause |-> TraceOf(invoked[c].name), call |-> c]
               /\ result(c) = Raised(exception[c])

\* C7: once the backend's non-blocking check has taken a CANCEL off the
\* message queue while iterating, it puts no further value of that call.
C7_StopsOnCancel == (seenCancel => backend.pc # "put_res") /\ ~lateValue

\* C8: cancel() of a Future whose call is in flight marks the Future
\* cancelled as its sender thread sees it.
C8_CancelMarksCancelled ==
    [][\A c \in Calls :
          (InFlight(c) /\ cpc[c].pc = "idle" /\ cpc'[c].pc # "idle") => cancelled'[c]]_vars

\* The sender thread of call c has ended.
SenderEnded(c) == spc[c] \in {"exit", "dead"}

\* C9, as stated: a generator call of n values whose Future is cancelled
\* before the backend has put them all ends with fewer than n responses.
C9_ShorterThanN ==
    \A c \in Calls :
        (/\ IsGenerator(invoked[c].name)
         /\ cpc[c].pc = "returned" /\ cpc[c].early
         /\ SenderEnded(c))
            => Len(responses[c]) < Len(Produced(invoked[c]))

\* C9, amended: at most one response is appended after cancel() has returned,
\* so a generator call of n values whose Future held fewer than n - 1
\* responses when it was cancelled never holds n.
C9_AtMostOneAfterCancel ==
    \A c \in Calls :
        cpc[c].pc = "returned" =>
            /\ Len(responses[c]) <= cpc[c].len + 1
            /\ (IsGenerator(invoked[c].name) /\ cpc[c].len + 1 < Len(Produced(invoked[c])))
                  => Len(responses[c]) < Len(Produced(invoked[c]))

C9_Witness ==
    \E c \in Calls :
        /\ invoked[c] = [name |-> "countdown", n |-> MaxN]
        /\ cpc[c].pc = "returned" /\ cpc[c].early /\ cpc[c].len + 2 = MaxN
        /\ SenderEnded(c)
        /\ Len(responses[c]) = cpc[c].len + 1

\* C10: done never goes back to false, and a set_done() whose assertion finds
\* the Future done (in cancel(), or in the sender thread on END) is rejected
\* and leaves done true.
C10_DoneOnce ==
    [][\A c \in Calls :
          /\ done[c] => done'[c]
          /\ (done[c] /\ cpc[c].pc = "idle" /\ cpc'[c].pc # "idle") => cpc'[c].pc = "raised"
          /\ (done[c] /\ spc[c] = "get" /\ spc'[c] # "get"
                /\ Head(response_queue).kind = "str" /\ Head(response_queue).val = END)
                => spc'[c] = "dead"]_vars

C10_Witness ==
    \E c, b \in Calls : done[c] /\ cpc[c].pc = "raised" /\ done[b] /\ spc[b] = "dead"

\* C11: once a Future's exception is set it is not set again, and no
\* response is appended to the Future after it.
C11_ExceptionOnce ==
    [][\A c \in Calls :
          exception[c] # NoException =>
              /\ exception'[c] = exception[c]
              /\ responses'[c] = responses[c]]_vars

\* C13: a str that a backend method returned or yielded, when the sender
\* thread takes it from the response queue, is appended to the Future as a
\* response and is not taken for the END of the call.
C13_ValueDelivered ==
    [][\A c \in Calls :
          (/\ spc[c] = "get" /\ spc'[c] # "get"
           /\ response_queue # <<>>
           /\ Head(response_queue).role = "value"
           /\ Head(response_queue).kind = "str")
          => /\ responses'[c] = Append(responses[c], Head(response_queue))
             /\ spc'[c] = "loop"]_vars

\* C12: a thread that waits in result() or exception() of a Future is woken
\* when the Future becomes done: no thread is left waiting on its event when
\* the Future is done and no set_done() of it is still to run its callbacks.
\* Stated for the Futures that nobody cancels, which only the sender thread
\* marks done.
C12_WaiterUnblocked ==
    \A c \in Calls :
        ~(wpc[c].pc = "waiting" /\ done[c] /\ spc[c] # "set_done" /\ ~u_cancelled[c])

\* A sender thread of the actor is between its acquire and its release of
\* the call lock.
ExchangeInFlight == \E c \in Calls : spc[c] \in {"put", "loop", "get", "set_done", "release"}

\* C14: can_use() returns true exactly when no call's exchange is in flight,
\* whatever the sender threads and the other can_use() threads do.  Stated
\* for the runs in which no Future is cancelled: there a sender thread holds
\* the lock for the whole of its exchange.
C14_TrueIffIdle ==
    [][\A p \in Probes :
          (ppc[p] = "idle" /\ ppc'[p] # "idle" /\ \A c \in Calls : ~u_cancelled[c])
          => (ppc'[p] = "holding" <=> ~ExchangeInFlight)]_vars

\* C15: with no shared_close() in between, shared() returns the instance
\* that the shared() before it returned, also when instances were
\* constructed in between.
C15_SameShared ==
    [][(op'.name = "shared" /\ op'.result = "ok" /\ lastShared # 0)
       => op'.actor = lastShared]_vars

\* C16: a shared_close() that returns leaves the registry entry empty, and
\* the shared() that follows it returns a new, started instance whose queues
\* are not closed.
C16_SharedAfterClose ==
    [][/\ (op'.name = "shared_close" /\ op'.result = "ok") => shared_instance' = 0
       /\ (op.name = "shared_close" /\ op.result = "ok" /\ op'.name = "shared")
          => /\ op'.result = "ok"
             /\ op'.actor = Len(actors) + 1
             /\ actors'[op'.actor].started
             /\ actors'[op'.actor].queues \notin closedQueues']_vars

\* C17: a close() of a frontend instance on which a close() has returned
\* before raises nothing and leaves the instance as the first close() left
\* it: process terminated, both queues closed.
C17_SecondClose ==
    [][\A i \in 1..Len(actors) :
          (op' # op /\ op'.name = "close" /\ op'.actor = i /\ actors[i].closes >= 1)
          => /\ op'.result = "ok"
             /\ actors'[i].terminated /\ actors[i].terminated
             /\ actors'[i].started = actors[i].started
             /\ closedQueues' = closedQueues
             /\ actors[i].queues \in closedQueues]_vars

C17_Witness ==
    \E i \in 1..Len(actors) :
        actors[i].closes = 2 /\ op = Ended("close", i, "ok") /\ actors[i].terminated

\* The reserved infrastructure names.
ReservedNames == {"start", "close", "is_alive", "can_use", "shared", "shared_close"}

\* C18: invoking a reserved infrastructure name on a frontend instance never
\* sends a Message.
C18_ReservedLocal == op.result = "Message" => op.name \notin ReservedNames

\* C19: two frontend instances whose backend processes are running never
\* have the same queues.
C19_OwnQueues ==
    \A i, j \in 1..Len(actors) :
        (i # j /\ actors[i].started /\ actors[j].started
               /\ ~actors[i].terminated /\ ~actors[j].terminated)
        => actors[i].queues # actors[j].queues

\* C20: a callback registered with add_exception_callback before the Future
\* errors has run exactly once when the Future's exception is set.
C20_CallbackRunsOnce ==
    \A c \in Calls :
        (ecb[c].registered /\ ecb[c].before /\ exception[c] # NoException)
        => ecb[c].runs = 1

\* C21: whatever the sender thread of a call takes from the response queue
\* (a value, an error or an END) was put by the backend while it executed the
\* Message of that same call.
C21_OwnResponses ==
    [][\A c \in Calls :
          (spc[c] = "get" /\ spc'[c] # "get" /\ response_queue # <<>>)
          => Head(response_queue).call = c]_vars

\* C22: a sender thread that has acquired the call lock releases it: no
\* sender thread has ended while the lock is still held in its name, which
\* would block every later call for good.
C22_LockReleased == \A c \in Calls : lock = c => ~SenderEnded(c)

\* The Message of call c is on the message queue.
Queued(c) ==
    \E k \in 1..Len(message_queue) :
        message_queue[k].kind = "Message" /\ message_queue[k].call = c

\* C23: a Message that a sender thread has put is on the message queue or
\* has been dispatched by the backend, and is dispatched once only: the
\* non-blocking check of the generator loop discards none.
C23_DispatchedOnce ==
    \A i \in 1..Len(sentOrder) :
        LET c == sentOrder[i] IN
        /\ Queued(c) \/ emitted[c] # <<>>
        /\ Cardinality({k \in 1..Len(emitted[c]) : emitted[c][k] = "begin"}) <= 1

\* C24: in a call whose method raises and whose Future nobody cancels,
\* setting the exception leaves done as it is and wakes no thread waiting on
\* a done callback; the Future becomes done only by the sender thread's
\* set_done() on END, with the exception already set; and the sender thread
\* has consumed the call's END when it releases the lock.
C24_ExceptionThenDone ==
    [][\A c \in Calls :
          (Raises(invoked[c].name) /\ cpc'[c].pc = "idle")
          => /\ exception'[c] # exception[c] => (done'[c] = done[c] /\ wpc'[c] = wpc[c])
             /\ (done'[c] /\ ~done[c])
                   => (spc[c] = "set_done" /\ exception[c] # NoException)
             /\ (spc'[c] = "exit" /\ spc[c] # "exit") => c \in drained]_vars

====
